---- MODULE Spec2Model ----
(***************************************************************************)
(* Model of the NDA review analyzer: the redline generation and the export *)
(* of RedlineView, the handlers of App and the service functions they call.*)
(*                                                                         *)
(* Text is a sequence of characters, a character is a one-letter string.   *)
(* A few fixed stretches of the annotation markup that hold no '<', no '>' *)
(* and no letter of the document alphabets are written as one symbol each  *)
(* (AttrDel, AttrIns, the title prefixes); everything the matching or the  *)
(* stripping can tell apart is spelled out character by character.         *)
(***************************************************************************)
EXTENDS Integers, Sequences, FiniteSets, TLC

\* the render of RedlineView: its props and the generators' locals
VARIABLES originalText, clauses, pc, redlineChanges, changes, idx,
          redlinedText, cleanText

\* RedlineView's view state and what its export buttons have put out
VARIABLES activeView, clipboard, downloaded

\* the state of App
VARIABLES activeTab, documentText, isAnalyzing, analysisProgress,
          analysisResult, isDragOver

\* what is in flight: AI requests, file extractions, clipboard writes; and
\* the number of AI requests issued so far
VARIABLES requests, requested, extractions, writes

\* what has been shown and logged: the notifications and console.error
VARIABLES toasts, console

\* history, read by the properties only: the document text of the AI request
\* that analysisResult came from, and the file chosen or dropped last
VARIABLES submitted, lastChosen

renderVars == <<originalText, clauses, pc, redlineChanges, changes, idx,
                redlinedText, cleanText>>
viewVars == <<activeView, clipboard, downloaded>>
appVars == <<activeTab, documentText, isAnalyzing, analysisProgress,
             analysisResult, isDragOver>>
asyncVars == <<requests, requested, extractions, writes>>
outVars == <<toasts, console>>
histVars == <<submitted, lastChosen>>

vars == <<renderVars, viewVars, appVars, asyncVars, outVars, histVars>>

-----------------------------------------------------------------------------
(* Bounds of the explored inputs *)

MaxTextLen == 4
MaxLangLen == 2
ListTextLen == 3
MaxFindings == 2
TallyFindings == 4
MaxToasts == 2
MaxWords == 2

-----------------------------------------------------------------------------
(* Generic sequence helpers *)

RECURSIVE SeqsUpTo(_, _)
SeqsUpTo(S, n) ==
    IF n = 0 THEN {<<>>}
    ELSE LET shorter == SeqsUpTo(S, n - 1)
         IN  shorter \cup {Append(s, c) : s \in {t \in shorter : Len(t) = n - 1}, c \in S}

RECURSIVE Flatten(_)
Flatten(ss) == IF ss = <<>> THEN <<>> ELSE Head(ss) \o Flatten(Tail(ss))

\* the value of an absent optional field
Undefined == <<"undefined">>

\* JavaScript truthiness of an optional string
Truthy(s) == s # Undefined /\ s # <<>>

-----------------------------------------------------------------------------
(* Regular expressions as the generators use them: new RegExp(src, 'gi') *)

\* a plausible slip: the 'i' flag left off, every character its own class
CanonicalizeCaseSensitive(c) == c

\* Canonicalize of the ignoreCase flag: the upper-case mapping of one character
Canonicalize(c) ==
    CASE c = "a" -> "A"
      [] c = "b" -> "B"
      [] c = "s" -> "S"
      [] c = "p" -> "P"
      [] c = "n" -> "N"
      [] OTHER   -> c

SyntaxCharacters ==
    {".", "*", "+", "?", "^", "$", "{", "}", "(", ")", "|", "[", "]", "\\"}

\* a plausible slip: the search text handed to RegExp as it is
escapeRegExpNone(string) == string

\* a plausible slip: '$' left out of the character class
escapeRegExpNoDollar(string) ==
    Flatten([i \in 1..Len(string) |->
                IF string[i] \in SyntaxCharacters \ {"$"}
                THEN <<"\\", string[i]>> ELSE <<string[i]>>])

\* string.replace(/[.*+?^${}()|[\]\\]/g, '\\$&')
escapeRegExp(string) ==
    Flatten([i \in 1..Len(string) |->
                IF string[i] \in SyntaxCharacters
                THEN <<"\\", string[i]>> ELSE <<string[i]>>])

\* The pattern source parsed into atoms.  A backslash makes the next
\* character a literal; an unescaped '.' is any character but a line
\* terminator, an unescaped '$' asserts the end of input, an unescaped '^'
\* its start.  No other unescaped syntax character occurs in the alphabets.
RECURSIVE ParsePattern(_, _)
ParsePattern(src, i) ==
    IF i > Len(src) THEN <<>>
    ELSE IF src[i] = "\\" /\ i < Len(src)
         THEN <<[kind |-> "lit", ch |-> src[i + 1]]>> \o ParsePattern(src, i + 2)
    ELSE IF src[i] = "."
         THEN <<[kind |-> "any", ch |-> "."]>> \o ParsePattern(src, i + 1)
    ELSE IF src[i] = "$"
         THEN <<[kind |-> "eol", ch |-> "$"]>> \o ParsePattern(src, i + 1)
    ELSE IF src[i] = "^"
         THEN <<[kind |-> "bol", ch |-> "^"]>> \o ParsePattern(src, i + 1)
    ELSE <<[kind |-> "lit", ch |-> src[i]]>> \o ParsePattern(src, i + 1)

RegExp(src) == ParsePattern(src, 1)

\* Match the atoms k.. at position p of text: the position after the match,
\* or 0 when there is no match at p.
RECURSIVE MatchFrom(_, _, _, _)
MatchFrom(atoms, k, text, p) ==
    IF k > Len(atoms) THEN p
    ELSE LET a == atoms[k]
         IN  CASE a.kind = "lit" ->
                    IF p <= Len(text) /\ Canonicalize(text[p]) = Canonicalize(a.ch)
                    THEN MatchFrom(atoms, k + 1, text, p + 1) ELSE 0
               [] a.kind = "any" ->
                    IF p <= Len(text) /\ text[p] # "\n"
                    THEN MatchFrom(atoms, k + 1, text, p + 1) ELSE 0
               [] a.kind = "eol" ->
                    IF p = Len(text) + 1 THEN MatchFrom(atoms, k + 1, text, p) ELSE 0
               [] a.kind = "bol" ->
                    IF p = 1 THEN MatchFrom(atoms, k + 1, text, p) ELSE 0

\* the expression matches at position p of text
MatchesAt(atoms, text, p) == MatchFrom(atoms, 1, text, p) # 0

\* the expression matches somewhere from position i on
MatchesFrom(atoms, text, i) ==
    \E p \in i..Len(text) + 1 : MatchesAt(atoms, text, p)

\* the leftmost position from i on where the expression matches
LeftmostMatch(atoms, text, i) ==
    CHOOSE p \in i..Len(text) + 1 :
        /\ MatchesAt(atoms, text, p)
        /\ \A q \in i..p - 1 : ~MatchesAt(atoms, text, q)

\* a plausible slip: the 'g' flag left off, only the first match is found
RECURSIVE MatchFirst(_, _, _)
MatchFirst(atoms, text, i) ==
    IF ~MatchesFrom(atoms, text, i) THEN <<>>
    ELSE LET s == LeftmostMatch(atoms, text, i)
         IN  <<[s |-> s, e |-> MatchFrom(atoms, 1, text, s)]>>

\* The matches of a global regular expression, scanned left to right: each
\* search finds the leftmost match at or after the place where the previous
\* match ended (one further on after an empty match).  A match is
\* [s |-> first position, e |-> position after].
RECURSIVE MatchAll(_, _, _)
MatchAll(atoms, text, i) ==
    IF ~MatchesFrom(atoms, text, i) THEN <<>>
    ELSE LET s == LeftmostMatch(atoms, text, i)
             e == MatchFrom(atoms, 1, text, s)
         IN  <<[s |-> s, e |-> e]>>
             \o MatchAll(atoms, text, IF e = s THEN s + 1 ELSE e)

\* text with the k-th match replaced by reps[k], everything else kept
RECURSIVE Splice(_, _, _, _, _)
Splice(text, ms, reps, k, from) ==
    IF k > Len(ms) THEN SubSeq(text, from, Len(text))
    ELSE SubSeq(text, from, ms[k].s - 1) \o reps[k]
         \o Splice(text, ms, reps, k + 1, ms[k].e)

Matched(text, m) == SubSeq(text, m.s, m.e - 1)

\* The expansion of a replacement string (String.prototype.replace with a
\* string as second argument): $$ is '$', $& the match, $` the text before
\* it, $' the text after it; the pattern has no groups, so any other '$'
\* stands for itself.
RECURSIVE GetSubstitution(_, _, _, _)
GetSubstitution(text, m, replacement, i) ==
    IF i > Len(replacement) THEN <<>>
    ELSE IF replacement[i] = "$" /\ i < Len(replacement)
              /\ replacement[i + 1] \in {"$", "&", "`", "'"}
         THEN (CASE replacement[i + 1] = "$" -> <<"$">>
                 [] replacement[i + 1] = "&" -> Matched(text, m)
                 [] replacement[i + 1] = "`" -> SubSeq(text, 1, m.s - 1)
                 [] replacement[i + 1] = "'" -> SubSeq(text, m.e, Len(text)))
              \o GetSubstitution(text, m, replacement, i + 2)
         ELSE <<replacement[i]>> \o GetSubstitution(text, m, replacement, i + 1)

\* text.replace(regex, replacement) with a replacement string
ReplaceByString(text, atoms, replacement) ==
    LET ms == MatchAll(atoms, text, 1)
    IN  Splice(text, ms,
               [k \in 1..Len(ms) |-> GetSubstitution(text, ms[k], replacement, 1)],
               1, 1)

-----------------------------------------------------------------------------
(* Annotation markup of the redline document *)

\* ' style="background-color: #fee2e2; ... border: 1px solid #fecaca;" title="'
AttrDel == " style=\"deletion\" title=\""

\* ' style="background-color: #dbeafe; ... border: 1px solid #bfdbfe;" title="'
AttrIns == " style=\"insertion\" title=\""

SpanOpen(attr, title) == <<"<", "s", "p", "a", "n", attr>> \o title \o <<"\"", ">">>

SpanClose == <<"<", "/", "s", "p", "a", "n", ">">>

\* a plausible slip: the marker is tagged with the clause name
DeletionMarkerNamed(change, match) ==
    SpanOpen(AttrDel, change.clauseName) \o match \o SpanClose

\* `<span style="..." title="${change.reason}">${match}</span>`
DeletionMarker(change, match) ==
    SpanOpen(AttrDel, change.reason) \o match \o SpanClose

\* a plausible slip: the two markers of a replacement joined without the space
ReplacementMarkerJoined(change, match) ==
    SpanOpen(AttrDel, <<"Original: ">> \o change.reason) \o match \o SpanClose
    \o SpanOpen(AttrIns, <<"Replacement: ">> \o change.reason) \o change.newText
    \o SpanClose

\* `<span ... title="Original: ${change.reason}">${match}</span> <span ...
\*  title="Replacement: ${change.reason}">${change.newText}</span>`
ReplacementMarker(change, match) ==
    SpanOpen(AttrDel, <<"Original: ">> \o change.reason) \o match \o SpanClose
    \o <<" ">>
    \o SpanOpen(AttrIns, <<"Replacement: ">> \o change.reason) \o change.newText
    \o SpanClose

\* `\n\n<span ... title="Addition: ${change.reason}">${change.newText}</span>`
AdditionMarker(change) ==
    <<"\n", "\n">>
    \o SpanOpen(AttrIns, <<"Addition: ">> \o change.reason) \o change.newText
    \o SpanClose

-----------------------------------------------------------------------------
(* RedlineView *)

\* a plausible slip: a finding without the text its change needs is left out
ChangeOfWithText(clause, index) ==
    CASE clause.recommendedAction = "Remove" /\ Truthy(clause.currentLanguage) ->
           <<[type |-> "deletion", originalText |-> clause.currentLanguage,
              newText |-> Undefined, clauseName |-> clause.name,
              position |-> index, reason |-> clause.issue]>>
      [] clause.recommendedAction = "Amend" /\ Truthy(clause.currentLanguage)
            /\ Truthy(clause.suggestedLanguage) ->
           <<[type |-> "replacement", originalText |-> clause.currentLanguage,
              newText |-> clause.suggestedLanguage, clauseName |-> clause.name,
              position |-> index, reason |-> clause.issue]>>
      [] clause.recommendedAction = "Add" /\ Truthy(clause.suggestedLanguage) ->
           <<[type |-> "addition", originalText |-> Undefined,
              newText |-> clause.suggestedLanguage, clauseName |-> clause.name,
              position |-> index, reason |-> clause.issue]>>
      [] OTHER -> <<>>

\* one Change of a clause; position is the clause's index, counted from 0
ChangeOf(clause, index) ==
    CASE clause.recommendedAction = "Remove" ->
           <<[type |-> "deletion", originalText |-> clause.currentLanguage,
              newText |-> Undefined, clauseName |-> clause.name,
              position |-> index, reason |-> clause.issue]>>
      [] clause.recommendedAction = "Amend" ->
           <<[type |-> "replacement", originalText |-> clause.currentLanguage,
              newText |-> clause.suggestedLanguage, clauseName |-> clause.name,
              position |-> index, reason |-> clause.issue]>>
      [] clause.recommendedAction = "Add" ->
           <<[type |-> "addition", originalText |-> Undefined,
              newText |-> clause.suggestedLanguage, clauseName |-> clause.name,
              position |-> index, reason |-> clause.issue]>>
      [] OTHER -> <<>>

generateRedlineChanges(cls) ==
    Flatten([i \in 1..Len(cls) |-> ChangeOf(cls[i], i - 1)])

\* a plausible slip: the comparator turned round, (a, b) => a.position - b.position
RECURSIVE InsertByPositionAscending(_, _)
InsertByPositionAscending(c, sorted) ==
    IF sorted = <<>> THEN <<c>>
    ELSE IF c.position - Head(sorted).position > 0
         THEN <<Head(sorted)>> \o InsertByPositionAscending(c, Tail(sorted))
         ELSE <<c>> \o sorted

RECURSIVE SortByPositionAscending(_)
SortByPositionAscending(cs) ==
    IF cs = <<>> THEN <<>>
    ELSE InsertByPositionAscending(cs[Len(cs)],
                                   SortByPositionAscending(SubSeq(cs, 1, Len(cs) - 1)))

\* insert c into a list ordered by the comparator (a, b) => b.position - a.position
RECURSIVE InsertByPosition(_, _)
InsertByPosition(c, sorted) ==
    IF sorted = <<>> THEN <<c>>
    ELSE IF Head(sorted).position - c.position > 0
         THEN <<Head(sorted)>> \o InsertByPosition(c, Tail(sorted))
         ELSE <<c>> \o sorted

\* changes.sort((a, b) => b.position - a.position)
RECURSIVE SortByPosition(_)
SortByPosition(cs) ==
    IF cs = <<>> THEN <<>>
    ELSE InsertByPosition(cs[Len(cs)], SortByPosition(SubSeq(cs, 1, Len(cs) - 1)))

\* the regular expression a change searches with
ChangeRegex(change) == RegExp(escapeRegExp(change.originalText))

\* a plausible slip: the tests for a text to search for and a text to put in
\* left out
RedlineApplyUnguarded(text, change) ==
    IF change.type = "deletion"
    THEN LET ms == MatchAll(ChangeRegex(change), text, 1)
         IN  Splice(text, ms,
                    [k \in 1..Len(ms) |-> DeletionMarker(change, Matched(text, ms[k]))],
                    1, 1)
    ELSE IF change.type = "replacement"
    THEN LET ms == MatchAll(ChangeRegex(change), text, 1)
         IN  Splice(text, ms,
                    [k \in 1..Len(ms) |-> ReplacementMarker(change, Matched(text, ms[k]))],
                    1, 1)
    ELSE IF change.type = "addition"
    THEN text \o AdditionMarker(change)
    ELSE text

\* one iteration of the forEach of generateRedlinedDocument
RedlineApply(text, change) ==
    IF change.type = "deletion" /\ Truthy(change.originalText)
    THEN LET ms == MatchAll(ChangeRegex(change), text, 1)
         IN  Splice(text, ms,
                    [k \in 1..Len(ms) |-> DeletionMarker(change, Matched(text, ms[k]))],
                    1, 1)
    ELSE IF change.type = "replacement" /\ Truthy(change.originalText)
            /\ Truthy(change.newText)
    THEN LET ms == MatchAll(ChangeRegex(change), text, 1)
         IN  Splice(text, ms,
                    [k \in 1..Len(ms) |-> ReplacementMarker(change, Matched(text, ms[k]))],
                    1, 1)
    ELSE IF change.type = "addition" /\ Truthy(change.newText)
    THEN text \o AdditionMarker(change)
    ELSE text

\* a plausible slip: the deletion branch tests for a type no Change has
CleanApplyNoDeletion(text, change) ==
    IF change.type = "replacement" /\ Truthy(change.originalText)
       /\ Truthy(change.newText)
    THEN ReplaceByString(text, ChangeRegex(change), change.newText)
    ELSE IF change.type = "addition" /\ Truthy(change.newText)
    THEN text \o <<"\n", "\n">> \o change.newText
    ELSE text

\* a plausible slip: the addition is put in front of the document
CleanApplyPrepend(text, change) ==
    IF change.type = "deletion" /\ Truthy(change.originalText)
    THEN ReplaceByString(text, ChangeRegex(change), <<>>)
    ELSE IF change.type = "replacement" /\ Truthy(change.originalText)
            /\ Truthy(change.newText)
    THEN ReplaceByString(text, ChangeRegex(change), change.newText)
    ELSE IF change.type = "addition" /\ Truthy(change.newText)
    THEN change.newText \o <<"\n", "\n">> \o text
    ELSE text

\* one iteration of the forEach of generateCleanDocument
CleanApply(text, change) ==
    IF change.type = "deletion" /\ Truthy(change.originalText)
    THEN ReplaceByString(text, ChangeRegex(change), <<>>)
    ELSE IF change.type = "replacement" /\ Truthy(change.originalText)
            /\ Truthy(change.newText)
    THEN ReplaceByString(text, ChangeRegex(change), change.newText)
    ELSE IF change.type = "addition" /\ Truthy(change.newText)
    THEN text \o <<"\n", "\n">> \o change.newText
    ELSE text

\* the number of changes of one type: redlineChanges.filter(c => c.type === t).length
CountType(cs, t) == Len(SelectSeq(cs, LAMBDA c : c.type = t))

\* a plausible slip: only the deletions that have a text to search for count
DeletionsWithText(cs) ==
    Len(SelectSeq(cs, LAMBDA c : c.type = "deletion" /\ Truthy(c.originalText)))

\* the three numbers of the Summary of Changes
Deletions(cs) == CountType(cs, "deletion")
Additions(cs) == CountType(cs, "addition")
Replacements(cs) == CountType(cs, "replacement")

\* a tag starts at position p: a '<' with a '>' somewhere after it
TagStartsAt(text, p) ==
    text[p] = "<" /\ \E j \in p + 1..Len(text) : text[j] = ">"

\* the leftmost tag start from i on
LeftmostTag(text, i) ==
    CHOOSE p \in i..Len(text) :
        TagStartsAt(text, p) /\ \A q \in i..p - 1 : ~TagStartsAt(text, q)

\* a plausible slip: /<.*>/g, from the first '<' to the last '>'
RECURSIVE StripTagsGreedy(_, _)
StripTagsGreedy(text, i) ==
    IF ~\E p \in i..Len(text) : TagStartsAt(text, p) THEN SubSeq(text, i, Len(text))
    ELSE LET s == LeftmostTag(text, i)
             j == CHOOSE j \in s + 1..Len(text) :
                     /\ text[j] = ">"
                     /\ \A h \in j + 1..Len(text) : text[h] # ">"
         IN  SubSeq(text, i, s - 1) \o StripTagsGreedy(text, j + 1)

\* text.replace(/<[^>]*>/g, ''): from each '<' up to the next '>' is dropped;
\* a '<' with no '>' after it stays
RECURSIVE StripTags(_, _)
StripTags(text, i) ==
    IF ~\E p \in i..Len(text) : TagStartsAt(text, p) THEN SubSeq(text, i, Len(text))
    ELSE LET s == LeftmostTag(text, i)
             j == CHOOSE j \in s + 1..Len(text) :
                     /\ text[j] = ">"
                     /\ \A h \in s + 1..j - 1 : text[h] # ">"
         IN  SubSeq(text, i, s - 1) \o StripTags(text, j + 1)

-----------------------------------------------------------------------------
(* Inputs *)

\* the characters of documents and search texts: a letter in both cases and
\* '$', a syntax character of regular expressions and of replacement strings
Chars == {"a", "A", "$"}

\* the characters of suggested texts
SuggestedChars == {"a", "$"}

\* the characters of the documents checked with several findings
ListChars == {"a", "$"}

Texts == SeqsUpTo(Chars, MaxTextLen)
Langs == SeqsUpTo(Chars, MaxLangLen)
SuggestedLangs == SeqsUpTo(SuggestedChars, MaxLangLen)
ListTexts == SeqsUpTo(ListChars, ListTextLen)

\* with several findings: no text or a text of one character
ListLangs == {<<>>} \cup {<<c>> : c \in ListChars}

\* for the tally of longer lists: one document; no search text, one the
\* document holds and one it does not hold; the text put in is not one of them
TallyTexts == {<<"a">>}
TallyLangs == {<<>>, <<"a">>, <<"$">>}
TallySuggested == {<<"b">>}

\* for findings with optional texts: documents of one letter; a text field is
\* absent, empty or one letter
OptionalTexts == SeqsUpTo({"a"}, ListTextLen)
OptionalLangs == {Undefined, <<>>, <<"a">>}
OptionalSuggested == {Undefined, <<>>, <<"b">>}

\* The fields of a ClauseAnalysis that RedlineView reads.  A Remove is given
\* no suggested text and an Add no current text: generateRedlineChanges does
\* not read them.
Findings(current, suggested) ==
    [name : {<<"n">>}, issue : {<<"r">>}, currentLanguage : current,
     recommendedAction : {"Remove"}, suggestedLanguage : {<<>>}]
    \cup
    [name : {<<"n">>}, issue : {<<"r">>}, currentLanguage : current,
     recommendedAction : {"Amend"}, suggestedLanguage : suggested]
    \cup
    [name : {<<"n">>}, issue : {<<"r">>}, currentLanguage : {<<>>},
     recommendedAction : {"Add"}, suggestedLanguage : suggested]

-----------------------------------------------------------------------------
(* The render of RedlineView as a state machine *)

\* App as it is when it shows RedlineView on the given props: the redline
\* tab open, an analysis done, nothing in flight
ShowsRedlineView(text, result) ==
    /\ activeTab = "redline"
    /\ documentText = text
    /\ isAnalyzing = FALSE
    /\ analysisProgress = 100
    /\ analysisResult = <<result>>
    /\ isDragOver = FALSE
    /\ requests = <<>> /\ requested = 0 /\ extractions = <<>> /\ writes = <<>>
    /\ toasts = <<>> /\ console = <<>>
    /\ submitted = <<IF text = <<>> THEN <<"a">> ELSE text>> /\ lastChosen = <<>>
    /\ activeView = "redline" /\ clipboard = <<>> /\ downloaded = <<>>

InitWith(texts, lists) ==
    /\ originalText \in texts
    /\ clauses \in lists
    /\ pc = "mount"
    /\ redlineChanges = <<>>
    /\ changes = <<>>
    /\ idx = 0
    /\ redlinedText = <<>>
    /\ cleanText = <<>>
    /\ ShowsRedlineView(originalText,
                        [recommendation |-> <<"SIGN">>, clauses |-> clauses])

\* one finding, the larger alphabet
Init == InitWith(Texts, {<<f>> : f \in Findings(Langs, SuggestedLangs)})

\* up to MaxFindings findings
InitList == InitWith(ListTexts, SeqsUpTo(Findings(ListLangs, ListLangs), MaxFindings))

\* up to TallyFindings findings
InitTally ==
    InitWith(TallyTexts, SeqsUpTo(Findings(TallyLangs, TallySuggested), TallyFindings))

\* up to MaxFindings findings whose text fields may be absent
InitOptional ==
    InitWith(OptionalTexts,
             SeqsUpTo(Findings(OptionalLangs, OptionalSuggested), MaxFindings))

\* a plausible slip: the generator sorts the list the tally and the change
\* log show, const changes = redlineChanges
RedlineStartSortsInPlace ==
    /\ pc = "mount"
    /\ redlineChanges' = SortByPosition(generateRedlineChanges(clauses))
    /\ redlinedText' = originalText
    /\ changes' = SortByPosition(generateRedlineChanges(clauses))
    /\ idx' = 1
    /\ pc' = "redline"
    /\ UNCHANGED <<originalText, clauses, cleanText>>
    /\ UNCHANGED <<viewVars, appVars, asyncVars, outVars>>
    /\ UNCHANGED histVars

\* const redlineChanges = generateRedlineChanges(); then generateRedlinedDocument
\* up to its sort
RedlineStart ==
    /\ pc = "mount"
    /\ redlineChanges' = generateRedlineChanges(clauses)
    /\ redlinedText' = originalText
    /\ changes' = SortByPosition(generateRedlineChanges(clauses))
    /\ idx' = 1
    /\ pc' = "redline"
    /\ UNCHANGED <<originalText, clauses, cleanText>>
    /\ UNCHANGED <<viewVars, appVars, asyncVars, outVars>>
    /\ UNCHANGED histVars

RedlineStep ==
    /\ pc = "redline"
    /\ idx <= Len(changes)
    /\ redlinedText' = RedlineApply(redlinedText, changes[idx])
    /\ idx' = idx + 1
    /\ UNCHANGED <<originalText, clauses, pc, redlineChanges, changes, cleanText>>
    /\ UNCHANGED <<viewVars, appVars, asyncVars, outVars>>
    /\ UNCHANGED histVars

\* generateRedlinedDocument returns; generateCleanDocument up to its sort
CleanStart ==
    /\ pc = "redline"
    /\ idx > Len(changes)
    /\ cleanText' = originalText
    /\ changes' = SortByPosition(generateRedlineChanges(clauses))
    /\ idx' = 1
    /\ pc' = "clean"
    /\ UNCHANGED <<originalText, clauses, redlineChanges, redlinedText>>
    /\ UNCHANGED <<viewVars, appVars, asyncVars, outVars>>
    /\ UNCHANGED histVars

\* a plausible slip: every change is applied to the source text instead of
\* the working text
CleanStepOnSource ==
    /\ pc = "clean"
    /\ idx <= Len(changes)
    /\ cleanText' = CleanApply(originalText, changes[idx])
    /\ idx' = idx + 1
    /\ UNCHANGED <<originalText, clauses, pc, redlineChanges, changes, redlinedText>>
    /\ UNCHANGED <<viewVars, appVars, asyncVars, outVars>>
    /\ UNCHANGED histVars

\* one iteration of the forEach of generateCleanDocument
CleanStep ==
    /\ pc = "clean"
    /\ idx <= Len(changes)
    /\ cleanText' = CleanApply(cleanText, changes[idx])
    /\ idx' = idx + 1
    /\ UNCHANGED <<originalText, clauses, pc, redlineChanges, changes, redlinedText>>
    /\ UNCHANGED <<viewVars, appVars, asyncVars, outVars>>
    /\ UNCHANGED histVars

\* generateCleanDocument returns: both documents are ready to show
CleanReturn ==
    /\ pc = "clean"
    /\ idx > Len(changes)
    /\ pc' = "rendered"
    /\ UNCHANGED <<originalText, clauses, redlineChanges, changes, idx,
                   redlinedText, cleanText>>
    /\ UNCHANGED <<viewVars, appVars, asyncVars, outVars>>
    /\ UNCHANGED histVars

Next == RedlineStart \/ RedlineStep \/ CleanStart \/ CleanStep \/ CleanReturn

Spec == Init /\ [][Next]_vars

SpecList == InitList /\ [][Next]_vars

SpecTally == InitTally /\ [][Next]_vars

SpecOptional == InitOptional /\ [][Next]_vars

-----------------------------------------------------------------------------
(* The export buttons of RedlineView *)

\* toast({ title, description, variant }); the description is a text, a
\* fixed stretch of it written as one symbol
Toast(title, description, variant) ==
    [title |-> title, description |-> description, variant |-> variant]

\* s without its i-th element
RemoveAt(s, i) == SubSeq(s, 1, i - 1) \o SubSeq(s, i + 1, Len(s))

\* documents, suggested texts and issues with angle brackets in them
ExportChars == {"a", "<", ">"}
ExportTexts == SeqsUpTo(ExportChars, ListTextLen)
ExportLangs == {<<>>, <<"a">>}
ExportSuggested == {<<"a">>, <<"<">>}
ExportIssues == {<<"r">>, <<">">>}

\* the findings with each of the issues
About(findings, issues) == {[f EXCEPT !.issue = i] : f \in findings, i \in issues}

\* no finding or one
InitExport ==
    InitWith(ExportTexts,
             {<<>>} \cup {<<f>> : f \in About(Findings(ExportLangs, ExportSuggested),
                                              ExportIssues)})

\* onValueChange={(value) => setActiveView(value as 'redline' | 'clean')}; the
\* render that follows computes the same documents from the same props
setActiveView(value) ==
    /\ pc = "rendered"
    /\ activeView' = value
    /\ UNCHANGED <<renderVars, clipboard, downloaded, appVars, asyncVars, outVars>>
    /\ UNCHANGED histVars

\* activeView === 'redline' ? redlinedDocument : cleanDocument
ShownDocument == IF activeView = "redline" THEN redlinedText ELSE cleanText

\* RedlineView's copyToClipboard up to its await: the tags are stripped and
\* the write is handed to the clipboard
RedlineView_copyToClipboard ==
    /\ pc = "rendered"
    /\ Len(toasts) + Len(writes) < MaxToasts
    /\ writes' = Append(writes, [text |-> StripTags(ShownDocument, 1),
                                 by |-> "RedlineView"])
    /\ UNCHANGED <<renderVars, viewVars, appVars, requests, requested,
                   extractions, outVars>>
    /\ UNCHANGED histVars

\* navigator.clipboard.writeText resolves: the rest of the try block
WriteTextResolves ==
    \E i \in 1..Len(writes) :
        /\ clipboard' = <<writes[i].text>>
        /\ writes' = RemoveAt(writes, i)
        /\ toasts' = Append(toasts,
                            Toast("Copied to clipboard",
                                  IF writes[i].by = "RedlineView"
                                  THEN <<"Document has been copied successfully">>
                                  ELSE <<"Text has been copied successfully">>,
                                  "default"))
        /\ UNCHANGED <<renderVars, activeView, downloaded, appVars, requests,
                       requested, extractions, console>>
        /\ UNCHANGED histVars

\* navigator.clipboard.writeText throws or rejects: the catch block
WriteTextRejects ==
    \E i \in 1..Len(writes) :
        /\ writes' = RemoveAt(writes, i)
        /\ toasts' = Append(toasts,
                            Toast("Failed to copy",
                                  IF writes[i].by = "RedlineView"
                                  THEN <<"Could not copy document to clipboard">>
                                  ELSE <<"Could not copy text to clipboard">>,
                                  "destructive"))
        /\ UNCHANGED <<renderVars, viewVars, appVars, requests, requested,
                       extractions, console>>
        /\ UNCHANGED histVars

\* downloadDocument(the shown document, `nda-${activeView}-version.txt`)
downloadDocument ==
    /\ pc = "rendered"
    /\ downloaded' = <<[content |-> StripTags(ShownDocument, 1),
                        filename |-> <<"nda-", activeView, "-version.txt">>]>>
    /\ UNCHANGED <<renderVars, activeView, clipboard, appVars, asyncVars, outVars>>
    /\ UNCHANGED histVars

NextExport ==
    \/ Next
    \/ \E value \in {"redline", "clean"} : setActiveView(value)
    \/ RedlineView_copyToClipboard
    \/ WriteTextResolves
    \/ WriteTextRejects
    \/ downloadDocument

SpecExport == InitExport /\ [][NextExport]_vars

-----------------------------------------------------------------------------
(* The service functions: analyzeNDA and extractTextFromFile *)

\* What an awaited call comes to, and what a function comes to.
Resolved(value) == [kind |-> "resolve", value |-> value]
Threw(value) == [kind |-> "throw", value |-> value]
Returned(value) == [kind |-> "return", value |-> value]

\* A thrown value: an Error or not (a string, an event, ...), and its message,
\* a text of words; each word the rules look for is one symbol.
Words == {"network", "fetch", "rate limit", "authentication", "Network", "busy"}

Thrown == [isError : BOOLEAN, message : SeqsUpTo(Words, MaxWords)]

\* new Error(message) with a fixed message
Error(message) == [isError |-> TRUE, message |-> <<message>>]

\* message.includes(word)
includes(message, word) == \E i \in 1..Len(message) : message[i] = word

\* a plausible slip: an error no rule matches is thrown on as it is
analyzeNDARethrows(outcome) ==
    IF outcome.kind = "resolve" THEN Returned(outcome.value)
    ELSE LET error == outcome.value
         IN  IF error.isError /\ (includes(error.message, "network")
                                  \/ includes(error.message, "fetch"))
             THEN Threw(Error("Network error occurred. Please check your connection and try again."))
             ELSE IF error.isError /\ includes(error.message, "rate limit")
             THEN Threw(Error("Too many requests. Please wait a moment and try again."))
             ELSE IF error.isError /\ includes(error.message, "authentication")
             THEN Threw(Error("Authentication error. Please sign in again."))
             ELSE Threw(error)

\* analyzeNDA, given what blink.ai.generateObject comes to
analyzeNDA(outcome) ==
    IF outcome.kind = "resolve" THEN Returned(outcome.value)
    ELSE LET error == outcome.value
         IN  IF error.isError /\ (includes(error.message, "network")
                                  \/ includes(error.message, "fetch"))
             THEN Threw(Error("Network error occurred. Please check your connection and try again."))
             ELSE IF error.isError /\ includes(error.message, "rate limit")
             THEN Threw(Error("Too many requests. Please wait a moment and try again."))
             ELSE IF error.isError /\ includes(error.message, "authentication")
             THEN Threw(Error("Authentication error. Please sign in again."))
             ELSE Threw(Error("Failed to analyze NDA. Please try again."))

\* the file types handed to blink.data.extractFromBlob
HostedTypes ==
    {"application/pdf",
     "application/vnd.openxmlformats-officedocument.wordprocessingml.document"}

\* extractTextFromFile, given what the extraction it starts comes to:
\* blink.data.extractFromBlob, which it awaits inside its try block, or the
\* FileReader promise, which it returns without awaiting it
extractTextFromFile(file, outcome) ==
    IF file.type \in HostedTypes
    THEN IF outcome.kind = "resolve" THEN Returned(outcome.value)
         ELSE Threw(Error("Failed to extract text from file. Please try again or paste the text directly."))
    ELSE IF outcome.kind = "resolve" THEN Returned(outcome.value)
         ELSE Threw(outcome.value)

-----------------------------------------------------------------------------
(* App: its inputs *)

WhiteSpace == {" ", "\n"}

RECURSIVE trimStart(_)
trimStart(text) ==
    IF text # <<>> /\ Head(text) \in WhiteSpace THEN trimStart(Tail(text)) ELSE text

RECURSIVE trimEnd(_)
trimEnd(text) ==
    IF text # <<>> /\ text[Len(text)] \in WhiteSpace
    THEN trimEnd(SubSeq(text, 1, Len(text) - 1)) ELSE text

\* text.trim()
trim(text) == trimEnd(trimStart(text))

\* what the text area can hold: nothing, white space only, two documents
AppTexts == {<<>>, <<" ">>, <<"a">>, <<"b">>}

\* the files offered: one the hosted extraction reads, one read as text;
\* text is what an extraction that succeeds yields for the file
Files ==
    {[name |-> <<"f">>, type |-> "application/pdf", text |-> <<"a">>],
     [name |-> <<"f">>, type |-> "text/plain", text |-> <<"b">>]}

\* the results the AI call yields
Results ==
    {[recommendation |-> <<"SIGN">>, clauses |-> <<>>, emailTemplate |-> <<"m">>],
     [recommendation |-> <<"DO", "_", "NOT", "_", "SIGN">>,
      clauses |-> <<[name |-> <<"n">>, issue |-> <<"r">>,
                     currentLanguage |-> <<"a">>, recommendedAction |-> "Amend",
                     suggestedLanguage |-> <<"b">>]>>,
      emailTemplate |-> <<"m">>]}

\* a few thrown values: an Error a rule of analyzeNDA matches, one no rule
\* matches, and a value that is no Error
FewThrown ==
    {[isError |-> TRUE, message |-> <<"fetch">>],
     [isError |-> TRUE, message |-> <<"busy">>],
     [isError |-> FALSE, message |-> <<"busy">>]}

\* Math.random() * 15, rounded down: its least and its greatest value
ProgressSteps == {0, 14}

\* ... and one more value, with which the progress comes to stand just below 90
FineSteps == {0, 5, 14}

\* recommendation.replace(/_/g, ' ')
ReplaceUnderscores(r) == [i \in 1..Len(r) |-> IF r[i] = "_" THEN " " ELSE r[i]]

\* App right after its first render: RedlineView is not shown
InitApp ==
    /\ originalText = <<>> /\ clauses = <<>> /\ pc = "unmounted"
    /\ redlineChanges = <<>> /\ changes = <<>> /\ idx = 0
    /\ redlinedText = <<>> /\ cleanText = <<>>
    /\ activeView = "redline" /\ clipboard = <<>> /\ downloaded = <<>>
    /\ activeTab = "upload"
    /\ documentText = <<>>
    /\ isAnalyzing = FALSE
    /\ analysisProgress = 0
    /\ analysisResult = <<>>
    /\ isDragOver = FALSE
    /\ requests = <<>> /\ requested = 0 /\ extractions = <<>> /\ writes = <<>>
    /\ toasts = <<>> /\ console = <<>>
    /\ submitted = <<>> /\ lastChosen = <<>>

\* the handlers started and not yet through
Pending == Len(requests) + Len(extractions) + Len(writes)

\* the explored runs show at most MaxToasts notifications
Room == Len(toasts) + Pending < MaxToasts

-----------------------------------------------------------------------------
(* App: its handlers *)

\* the text area's onChange
setDocumentText(value) ==
    /\ activeTab = "upload"
    /\ documentText' = value
    /\ UNCHANGED <<renderVars, viewVars, activeTab, isAnalyzing, analysisProgress,
                   analysisResult, isDragOver, asyncVars, outVars>>
    /\ UNCHANGED histVars

\* a plausible slip: no tab trigger is ever disabled
setActiveTabUnguarded(value) ==
    /\ activeTab' = value
    /\ UNCHANGED <<renderVars, viewVars, documentText, isAnalyzing,
                   analysisProgress, analysisResult, isDragOver, asyncVars, outVars>>
    /\ UNCHANGED histVars

\* the tab triggers: results is disabled while there is no result and no
\* analysis is running, redline while there is no result
setActiveTab(value) ==
    /\ value = "results" => (analysisResult # <<>> \/ isAnalyzing)
    /\ value = "redline" => analysisResult # <<>>
    /\ activeTab' = value
    /\ UNCHANGED <<renderVars, viewVars, documentText, isAnalyzing,
                   analysisProgress, analysisResult, isDragOver, asyncVars, outVars>>
    /\ UNCHANGED histVars

handleDragOver ==
    /\ activeTab = "upload"
    /\ isDragOver' = TRUE
    /\ UNCHANGED <<renderVars, viewVars, activeTab, documentText, isAnalyzing,
                   analysisProgress, analysisResult, asyncVars, outVars>>
    /\ UNCHANGED histVars

handleDragLeave ==
    /\ activeTab = "upload"
    /\ isDragOver' = FALSE
    /\ UNCHANGED <<renderVars, viewVars, activeTab, documentText, isAnalyzing,
                   analysisProgress, analysisResult, asyncVars, outVars>>
    /\ UNCHANGED histVars

\* handleFileUpload with a file chosen, up to its await
handleFileUpload(file) ==
    /\ activeTab = "upload"
    /\ Room
    /\ extractions' = Append(extractions, file)
    /\ UNCHANGED <<renderVars, viewVars, appVars, requests, requested, writes,
                   outVars>>
    /\ lastChosen' = <<file>>
    /\ UNCHANGED submitted

\* handleDrop with a file dropped, up to its await
handleDrop(file) ==
    /\ activeTab = "upload"
    /\ Room
    /\ isDragOver' = FALSE
    /\ extractions' = Append(extractions, file)
    /\ UNCHANGED <<renderVars, viewVars, activeTab, documentText, isAnalyzing,
                   analysisProgress, analysisResult, requests, requested, writes,
                   outVars>>
    /\ lastChosen' = <<file>>
    /\ UNCHANGED submitted

\* a plausible slip: the catch block shows nothing
uploadResumesSilently(i, outcome) ==
    LET file == extractions[i]
        r == extractTextFromFile(file, outcome)
    IN  /\ extractions' = RemoveAt(extractions, i)
        /\ console' =
              IF file.type \in HostedTypes /\ outcome.kind = "throw"
              THEN Append(console, [label |-> "Error extracting text from file:",
                                    value |-> outcome.value])
              ELSE console
        /\ IF r.kind = "return"
           THEN /\ documentText' = r.value
                /\ toasts' = Append(toasts,
                                    Toast("File uploaded successfully",
                                          <<"Extracted text from ">> \o file.name,
                                          "default"))
           ELSE /\ documentText' = documentText
                /\ toasts' = toasts
        /\ UNCHANGED <<renderVars, viewVars, activeTab, isAnalyzing,
                       analysisProgress, analysisResult, isDragOver, requests,
                       requested, writes>>
        /\ UNCHANGED histVars

\* The i-th extraction comes to outcome: extractTextFromFile's try and catch,
\* then the rest of handleFileUpload or handleDrop (they are alike).
uploadResumes(i, outcome) ==
    LET file == extractions[i]
        r == extractTextFromFile(file, outcome)
    IN  /\ extractions' = RemoveAt(extractions, i)
        /\ console' =
              IF file.type \in HostedTypes /\ outcome.kind = "throw"
              THEN Append(console, [label |-> "Error extracting text from file:",
                                    value |-> outcome.value])
              ELSE console
        /\ IF r.kind = "return"
           THEN /\ documentText' = r.value
                /\ toasts' = Append(toasts,
                                    Toast("File uploaded successfully",
                                          <<"Extracted text from ">> \o file.name,
                                          "default"))
           ELSE /\ documentText' = documentText
                /\ toasts' = Append(toasts,
                                    Toast("Error uploading file",
                                          IF r.value.isError THEN r.value.message
                                          ELSE <<"Failed to process file">>,
                                          "destructive"))
        /\ UNCHANGED <<renderVars, viewVars, activeTab, isAnalyzing,
                       analysisProgress, analysisResult, isDragOver, requests,
                       requested, writes>>
        /\ UNCHANGED histVars

extractionResolves ==
    \E i \in 1..Len(extractions) : uploadResumes(i, Resolved(extractions[i].text))

extractionRejects ==
    \E i \in 1..Len(extractions), e \in FewThrown : uploadResumes(i, Threw(e))

\* a plausible slip: the test of the text left out
analyzeDocumentUnchecked ==
    /\ Room
    /\ isAnalyzing' = TRUE
    /\ analysisProgress' = 0
    /\ activeTab' = "results"
    /\ requests' = Append(requests, [documentText |-> documentText,
                                     progressInterval |-> TRUE])
    /\ requested' = requested + 1
    /\ UNCHANGED <<documentText, analysisResult, isDragOver,
                   extractions, writes, outVars>>
    /\ UNCHANGED <<renderVars, viewVars>>
    /\ UNCHANGED histVars

\* analyzeDocument from its call up to its await: with a blank text it shows
\* an error and returns, else the interval is started and analyzeNDA issues
\* the AI request.
analyzeDocumentCalled ==
    /\ Room
    /\ IF trim(documentText) = <<>>
       THEN /\ toasts' = Append(toasts,
                                Toast("No document to analyze",
                                      <<"Please upload a document or paste text first">>,
                                      "destructive"))
            /\ UNCHANGED <<appVars, asyncVars, console>>
       ELSE /\ isAnalyzing' = TRUE
            /\ analysisProgress' = 0
            /\ activeTab' = "results"
            /\ requests' = Append(requests, [documentText |-> documentText,
                                             progressInterval |-> TRUE])
            /\ requested' = requested + 1
            /\ UNCHANGED <<documentText, analysisResult, isDragOver,
                           extractions, writes, outVars>>
    /\ UNCHANGED <<renderVars, viewVars>>
    /\ UNCHANGED histVars

\* a plausible slip: the button is disabled for a blank text only
AnalyzeDisabledOnBlank == trim(documentText) = <<>>

\* the Analyze button is disabled while the text is blank or an analysis is
\* running
AnalyzeDisabled == trim(documentText) = <<>> \/ isAnalyzing

\* a click on the Analyze button, shown on the upload tab
analyzeDocument ==
    /\ activeTab = "upload"
    /\ ~AnalyzeDisabled
    /\ analyzeDocumentCalled

\* one call of the interval's callback, Math.random() * 15 one of steps
progressTickBy(steps) ==
    \E i \in 1..Len(requests), step \in steps :
        /\ requests[i].progressInterval
        /\ IF analysisProgress >= 90
           THEN /\ analysisProgress' = 90
                /\ requests' = [requests EXCEPT ![i].progressInterval = FALSE]
           ELSE /\ analysisProgress' = analysisProgress + step
                /\ requests' = requests
        /\ UNCHANGED <<renderVars, viewVars, activeTab, documentText, isAnalyzing,
                       analysisResult, isDragOver, requested, extractions, writes,
                       outVars>>
        /\ UNCHANGED histVars

progressTick == progressTickBy(ProgressSteps)

\* a plausible slip: the catch block does not go back to the upload tab
analyzeDocumentStaysOnTab(i, outcome) ==
    LET r == analyzeNDA(outcome)
    IN  /\ console' =
              IF outcome.kind = "throw"
              THEN Append(console, [label |-> "Error analyzing NDA:",
                                    value |-> outcome.value])
              ELSE console
        /\ IF r.kind = "return"
           THEN /\ analysisResult' = <<r.value>>
                /\ analysisProgress' = 100
                /\ toasts' = Append(toasts,
                                    Toast("Analysis complete",
                                          <<"Recommendation: ">>
                                          \o ReplaceUnderscores(r.value.recommendation),
                                          "default"))
                /\ activeTab' = activeTab
           ELSE /\ toasts' = Append(toasts,
                                    Toast("Analysis failed",
                                          IF r.value.isError THEN r.value.message
                                          ELSE <<"Failed to analyze document">>,
                                          "destructive"))
                /\ activeTab' = activeTab
                /\ UNCHANGED <<analysisResult, analysisProgress>>
        /\ isAnalyzing' = FALSE
        /\ requests' = RemoveAt(requests, i)
        /\ UNCHANGED <<renderVars, viewVars, documentText, isDragOver, requested,
                       extractions, writes>>
        /\ submitted' = IF r.kind = "return" THEN <<requests[i].documentText>>
                        ELSE submitted
        /\ UNCHANGED lastChosen

\* a plausible slip: a failed request is issued once more before giving up
analyzeDocumentRetries(i, outcome) ==
    LET r == analyzeNDA(outcome)
    IN  /\ console' =
              IF outcome.kind = "throw"
              THEN Append(console, [label |-> "Error analyzing NDA:",
                                    value |-> outcome.value])
              ELSE console
        /\ IF r.kind = "return"
           THEN /\ analysisResult' = <<r.value>>
                /\ analysisProgress' = 100
                /\ toasts' = Append(toasts,
                                    Toast("Analysis complete",
                                          <<"Recommendation: ">>
                                          \o ReplaceUnderscores(r.value.recommendation),
                                          "default"))
                /\ activeTab' = activeTab
           ELSE /\ toasts' = Append(toasts,
                                    Toast("Analysis failed",
                                          IF r.value.isError THEN r.value.message
                                          ELSE <<"Failed to analyze document">>,
                                          "destructive"))
                /\ activeTab' = "upload"
                /\ UNCHANGED <<analysisResult, analysisProgress>>
        /\ isAnalyzing' = FALSE
        /\ requests' = RemoveAt(requests, i)
        /\ requested' = IF r.kind = "throw" THEN requested + 1 ELSE requested
        /\ UNCHANGED <<renderVars, viewVars, documentText, isDragOver,
                       extractions, writes>>
        /\ submitted' = IF r.kind = "return" THEN <<requests[i].documentText>>
                        ELSE submitted
        /\ UNCHANGED lastChosen

\* a plausible slip: no finally block, setIsAnalyzing(false) stands at the end
\* of the try block
analyzeDocumentNoFinally(i, outcome) ==
    LET r == analyzeNDA(outcome)
    IN  /\ console' =
              IF outcome.kind = "throw"
              THEN Append(console, [label |-> "Error analyzing NDA:",
                                    value |-> outcome.value])
              ELSE console
        /\ IF r.kind = "return"
           THEN /\ analysisResult' = <<r.value>>
                /\ analysisProgress' = 100
                /\ toasts' = Append(toasts,
                                    Toast("Analysis complete",
                                          <<"Recommendation: ">>
                                          \o ReplaceUnderscores(r.value.recommendation),
                                          "default"))
                /\ activeTab' = activeTab
                /\ isAnalyzing' = FALSE
           ELSE /\ toasts' = Append(toasts,
                                    Toast("Analysis failed",
                                          IF r.value.isError THEN r.value.message
                                          ELSE <<"Failed to analyze document">>,
                                          "destructive"))
                /\ activeTab' = "upload"
                /\ UNCHANGED <<analysisResult, analysisProgress, isAnalyzing>>
        /\ requests' = RemoveAt(requests, i)
        /\ UNCHANGED <<renderVars, viewVars, documentText, isDragOver, requested,
                       extractions, writes>>
        /\ submitted' = IF r.kind = "return" THEN <<requests[i].documentText>>
                        ELSE submitted
        /\ UNCHANGED lastChosen

\* The i-th AI request comes to outcome: analyzeNDA's try and catch, then the
\* try, catch and finally of analyzeDocument.
analyzeDocumentResumes(i, outcome) ==
    LET r == analyzeNDA(outcome)
    IN  /\ console' =
              IF outcome.kind = "throw"
              THEN Append(console, [label |-> "Error analyzing NDA:",
                                    value |-> outcome.value])
              ELSE console
        /\ IF r.kind = "return"
           THEN /\ analysisResult' = <<r.value>>
                /\ analysisProgress' = 100
                /\ toasts' = Append(toasts,
                                    Toast("Analysis complete",
                                          <<"Recommendation: ">>
                                          \o ReplaceUnderscores(r.value.recommendation),
                                          "default"))
                /\ activeTab' = activeTab
           ELSE /\ toasts' = Append(toasts,
                                    Toast("Analysis failed",
                                          IF r.value.isError THEN r.value.message
                                          ELSE <<"Failed to analyze document">>,
                                          "destructive"))
                /\ activeTab' = "upload"
                /\ UNCHANGED <<analysisResult, analysisProgress>>
        /\ isAnalyzing' = FALSE
        /\ requests' = RemoveAt(requests, i)
        /\ UNCHANGED <<renderVars, viewVars, documentText, isDragOver, requested,
                       extractions, writes>>
        /\ submitted' = IF r.kind = "return" THEN <<requests[i].documentText>>
                        ELSE submitted
        /\ UNCHANGED lastChosen

analysisResolves ==
    \E i \in 1..Len(requests), result \in Results :
        analyzeDocumentResumes(i, Resolved(result))

analysisRejects(thrown) ==
    \E i \in 1..Len(requests), e \in thrown : analyzeDocumentResumes(i, Threw(e))

\* the texts the results tab has a Copy button for
Copyable ==
    {analysisResult[1].emailTemplate}
    \cup {analysisResult[1].clauses[k].suggestedLanguage :
             k \in 1..Len(analysisResult[1].clauses)}

\* App's copyToClipboard up to its await
App_copyToClipboard ==
    /\ activeTab = "results"
    /\ analysisResult # <<>>
    /\ Room
    /\ \E text \in Copyable :
          writes' = Append(writes, [text |-> text, by |-> "App"])
    /\ UNCHANGED <<renderVars, viewVars, appVars, requests, requested,
                   extractions, outVars>>
    /\ UNCHANGED histVars

NextApp ==
    \/ \E value \in AppTexts : setDocumentText(value)
    \/ \E value \in {"upload", "results", "redline"} : setActiveTab(value)
    \/ handleDragOver
    \/ handleDragLeave
    \/ \E file \in Files : handleFileUpload(file)
    \/ \E file \in Files : handleDrop(file)
    \/ extractionResolves
    \/ extractionRejects
    \/ analyzeDocument
    \/ progressTick
    \/ analysisResolves
    \/ analysisRejects(FewThrown)
    \/ App_copyToClipboard
    \/ WriteTextResolves
    \/ WriteTextRejects

SpecApp == InitApp /\ [][NextApp]_vars

\* Uploads, drops and copies, before an analysis or after one whose
\* notifications are gone.
InitUpload ==
    /\ originalText = <<>> /\ clauses = <<>> /\ pc = "unmounted"
    /\ redlineChanges = <<>> /\ changes = <<>> /\ idx = 0
    /\ redlinedText = <<>> /\ cleanText = <<>>
    /\ activeView = "redline" /\ clipboard = <<>> /\ downloaded = <<>>
    /\ activeTab = "upload"
    /\ documentText \in {<<>>, <<"a">>}
    /\ isAnalyzing = FALSE
    /\ analysisResult \in {<<>>} \cup {<<r>> : r \in Results}
    /\ analysisProgress = IF analysisResult = <<>> THEN 0 ELSE 100
    /\ isDragOver = FALSE
    /\ requests = <<>> /\ requested = 0 /\ extractions = <<>> /\ writes = <<>>
    /\ toasts = <<>> /\ console = <<>>
    /\ submitted = IF analysisResult = <<>> THEN <<>> ELSE <<<<"a">>>>
    /\ lastChosen = <<>>

NextUpload ==
    \/ \E value \in AppTexts : setDocumentText(value)
    \/ \E value \in {"upload", "results", "redline"} : setActiveTab(value)
    \/ handleDragOver
    \/ handleDragLeave
    \/ \E file \in Files : handleFileUpload(file)
    \/ \E file \in Files : handleDrop(file)
    \/ extractionResolves
    \/ extractionRejects
    \/ App_copyToClipboard
    \/ WriteTextResolves
    \/ WriteTextRejects

SpecUpload == InitUpload /\ [][NextUpload]_vars

\* Files chosen and dropped one after another with no edit of the text area.
NextRace ==
    \/ handleDragOver
    \/ handleDragLeave
    \/ \E file \in Files : handleFileUpload(file)
    \/ \E file \in Files : handleDrop(file)
    \/ extractionResolves
    \/ extractionRejects

SpecRace == InitApp /\ [][NextRace]_vars

\* App renders <RedlineView analysisResult={analysisResult}
\* originalText={documentText} /> inside the redline tab: RedlineView is
\* rendered when the tab is shown with a result, and again when a prop has
\* changed.
renderRedlineView ==
    /\ activeTab = "redline"
    /\ analysisResult # <<>>
    /\ \/ pc = "unmounted"
       \/ /\ pc = "rendered"
          /\ (originalText # documentText \/ clauses # analysisResult[1].clauses)
    /\ originalText' = documentText
    /\ clauses' = analysisResult[1].clauses
    /\ pc' = "mount"
    /\ redlineChanges' = <<>> /\ changes' = <<>> /\ idx' = 0
    /\ redlinedText' = <<>> /\ cleanText' = <<>>
    /\ UNCHANGED <<viewVars, appVars, asyncVars, outVars, histVars>>

\* no render is under way: a handler can run
Idle == pc \in {"unmounted", "rendered"}

\* An analysis, edits and uploads before and after it, and the redline tab.
NextRedline ==
    \/ Idle /\ \E value \in AppTexts : setDocumentText(value)
    \/ Idle /\ \E value \in {"upload", "results", "redline"} : setActiveTab(value)
    \/ Idle /\ \E file \in Files : handleFileUpload(file)
    \/ Idle /\ extractionResolves
    \/ Idle /\ analyzeDocument
    \/ Idle /\ analysisResolves
    \/ Idle /\ analysisRejects(FewThrown)
    \/ renderRedlineView
    \/ Next

SpecRedline == InitApp /\ [][NextRedline]_vars

\* One analysis of a document, the AI call failing with any thrown value.
InitService ==
    /\ originalText = <<>> /\ clauses = <<>> /\ pc = "unmounted"
    /\ redlineChanges = <<>> /\ changes = <<>> /\ idx = 0
    /\ redlinedText = <<>> /\ cleanText = <<>>
    /\ activeView = "redline" /\ clipboard = <<>> /\ downloaded = <<>>
    /\ activeTab = "upload"
    /\ documentText \in {<<"a">>, <<"b">>}
    /\ isAnalyzing = FALSE
    /\ analysisProgress = 0
    /\ analysisResult = <<>>
    /\ isDragOver = FALSE
    /\ requests = <<>> /\ requested = 0 /\ extractions = <<>> /\ writes = <<>>
    /\ toasts = <<>> /\ console = <<>>
    /\ submitted = <<>> /\ lastChosen = <<>>

NextService ==
    \/ requested = 0 /\ analyzeDocument
    \/ progressTick
    \/ analysisResolves
    \/ analysisRejects(Thrown)

SpecService == InitService /\ [][NextService]_vars

\* Analyses one after another, the progress in finer steps.
NextProgress ==
    \/ analyzeDocument
    \/ progressTickBy(FineSteps)
    \/ analysisResolves
    \/ analysisRejects(FewThrown)
    \/ \E value \in {"upload", "results", "redline"} : setActiveTab(value)

SpecProgress == InitService /\ [][NextProgress]_vars

\* ... every AI call settling at some time: its promise resolves or rejects
SpecSettles ==
    /\ InitService
    /\ [][NextProgress]_vars
    /\ WF_vars(analysisResolves \/ analysisRejects(FewThrown))

\* analyzeDocument called whatever the text is, as by a caller that does not
\* look at the button's disabled attribute.
NextCall ==
    \/ \E value \in AppTexts : setDocumentText(value)
    \/ \E value \in {"upload", "results", "redline"} : setActiveTab(value)
    \/ activeTab = "upload" /\ ~isAnalyzing /\ analyzeDocumentCalled
    \/ progressTick
    \/ analysisResolves
    \/ analysisRejects(FewThrown)

SpecCall == InitApp /\ [][NextCall]_vars

-----------------------------------------------------------------------------
(* Vocabulary of the properties *)

\* the least element of a non-empty set of positions
Least(S) == CHOOSE i \in S : \A h \in S : i <= h

ToLowerCase(c) == CASE c = "A" -> "a" [] c = "B" -> "b" [] OTHER -> c

\* x, compared without regard to letter case, stands at position i of text
StandsAt(x, text, i) ==
    /\ i + Len(x) - 1 <= Len(text)
    /\ \A j \in 1..Len(x) : ToLowerCase(text[i + j - 1]) = ToLowerCase(x[j])

\* all positions of text where the non-empty x stands, overlapping ones too
Occurrences(x, text) == {i \in 1..Len(text) : StandsAt(x, text, i)}

\* the positions a plain search repeated from left to right finds: the first
\* occurrence from `from` on, then on from behind it
RECURSIVE PlainSearch(_, _, _)
PlainSearch(x, text, from) ==
    LET later == {i \in Occurrences(x, text) : i >= from}
    IN  IF later = {} THEN {}
        ELSE LET i == Least(later)
             IN  {i} \cup PlainSearch(x, text, i + Len(x))

\* text holds x verbatim
Contains(text, x) ==
    \E i \in 1..Len(text) - Len(x) + 1 : SubSeq(text, i, i + Len(x) - 1) = x

IsPrefix(p, text) == Len(p) <= Len(text) /\ SubSeq(text, 1, Len(p)) = p

IsSuffix(q, text) ==
    Len(q) <= Len(text) /\ SubSeq(text, Len(text) - Len(q) + 1, Len(text)) = q

\* text with x replaced by rep at every position of occ (no two overlapping)
RECURSIVE ReplaceEvery(_, _, _, _, _)
ReplaceEvery(text, occ, n, rep, from) ==
    LET later == {i \in occ : i >= from}
    IN  IF later = {} THEN SubSeq(text, from, Len(text))
        ELSE LET i == Least(later)
             IN  SubSeq(text, from, i - 1) \o rep
                 \o ReplaceEvery(text, occ, n, rep, i + n)

NonOverlapping(occ, n) == \A i, j \in occ : i < j => i + n <= j

CountOf(sym, text) == Cardinality({i \in 1..Len(text) : text[i] = sym})

Rendered == pc = "rendered"

\* the finding list is one finding of the given action
Single(action) == Len(clauses) = 1 /\ clauses[1].recommendedAction = action

X == clauses[1].currentLanguage
Y == clauses[1].suggestedLanguage
Issue == clauses[1].issue

\* X is non-empty and stands at exactly one position of the source text
Once == X # <<>> /\ Cardinality(Occurrences(X, originalText)) = 1

At == CHOOSE i \in Occurrences(X, originalText) : TRUE

\* ... and stands there letter for letter
OnceVerbatim == Once /\ SubSeq(originalText, At, At + Len(X) - 1) = X

Before == SubSeq(originalText, 1, At - 1)
Found == SubSeq(originalText, At, At + Len(X) - 1)
After == SubSeq(originalText, At + Len(X), Len(originalText))

\* the change made of the single finding
TheChange == generateRedlineChanges(clauses)[1]

-----------------------------------------------------------------------------
(* C1 .. C6: one finding *)

\* C1: one Amend finding whose non-empty currentLanguage X occurs exactly once
\* in the source and whose suggestedLanguage Y is non-empty ('$' included):
\* the clean document is the source with that occurrence replaced by the
\* literal text Y, every other character unchanged.
C1_AmendReplacesLiterally ==
    (Rendered /\ Single("Amend") /\ OnceVerbatim /\ Y # <<>>)
        => cleanText = Before \o Y \o After

\* C2 as stated: one Remove finding whose X occurs exactly once in the source:
\* the clean document contains no occurrence of X.
C2_CleanHoldsNoX ==
    (Rendered /\ Single("Remove") /\ OnceVerbatim) => ~Contains(cleanText, X)

\* C2 as amended: the clean document is the source with that occurrence cut
\* out; X stands in it only where the characters on both sides of the cut
\* join to spell it.
C2_CleanIsSourceCut ==
    (Rendered /\ Single("Remove") /\ Once)
        => /\ cleanText = Before \o After
           /\ \A j \in Occurrences(X, cleanText) : j < At /\ j + Len(X) > At

C2_Witness ==
    /\ Rendered /\ Single("Remove") /\ OnceVerbatim
    /\ Contains(cleanText, X)

\* C4 as stated: one Amend finding, X once in the source, Y non-empty: the
\* redline holds the deletion marker around the matched X with the insertion
\* marker around Y right behind it, nothing in between.
C4_MarkersTouch ==
    (Rendered /\ Single("Amend") /\ OnceVerbatim /\ Y # <<>>)
        => Contains(redlinedText,
                    SpanOpen(AttrDel, <<"Original: ">> \o Issue) \o Found \o SpanClose
                    \o SpanOpen(AttrIns, <<"Replacement: ">> \o Issue) \o Y \o SpanClose)

\* C4 as amended: the deletion marker around the matched X is followed by
\* exactly one space and then the insertion marker around Y; the rest of the
\* redline is the source text.
C4_MarkersOneSpaceApart ==
    (Rendered /\ Single("Amend") /\ Once /\ Y # <<>>)
        => redlinedText =
              Before
              \o SpanOpen(AttrDel, <<"Original: ">> \o Issue) \o Found \o SpanClose
              \o <<" ">>
              \o SpanOpen(AttrIns, <<"Replacement: ">> \o Issue) \o Y \o SpanClose
              \o After

C4_Witness ==
    /\ Rendered /\ Single("Amend") /\ OnceVerbatim /\ Y # <<>>
    /\ Before # <<>> /\ After # <<>>
    /\ CountOf(AttrDel, redlinedText) = 1 /\ CountOf(AttrIns, redlinedText) = 1

\* C5: one Remove finding whose non-empty X occurs once in the source: the
\* redline is the source with that occurrence, in the source's own casing,
\* wrapped in one deletion marker tagged with the finding's issue; the text
\* outside the marker is unchanged and X is still there.
C5_RemoveIsMarked ==
    (Rendered /\ Single("Remove") /\ Once)
        => redlinedText =
              Before \o SpanOpen(AttrDel, Issue) \o Found \o SpanClose \o After

C5_Witness ==
    /\ Rendered /\ Single("Remove") /\ Once
    /\ Found # X
    /\ Contains(redlinedText, Found)
    /\ CountOf(AttrDel, redlinedText) = 1

\* C6: one Add finding with non-empty Y and no currentLanguage: the clean
\* document ends with the raw Y, the redline ends with an insertion marker
\* around Y, and both start with the complete source text, which the
\* appended part does not overlap.
C6_AddAppends ==
    (Rendered /\ Single("Add") /\ Y # <<>>)
        => /\ IsSuffix(Y, cleanText)
           /\ IsPrefix(originalText, cleanText)
           /\ Len(cleanText) >= Len(originalText) + Len(Y)
           /\ IsSuffix(SpanOpen(AttrIns, <<"Addition: ">> \o Issue) \o Y \o SpanClose,
                       redlinedText)
           /\ IsPrefix(originalText, redlinedText)
           /\ Len(redlinedText) >= Len(originalText) + Len(Y) + Len(SpanClose)
           /\ CountOf(AttrIns, redlinedText) = 1

C6_Witness ==
    /\ Rendered /\ Single("Add") /\ Y # <<>> /\ X = <<>>
    /\ originalText # <<>>
    /\ cleanText = originalText \o <<"\n", "\n">> \o Y

-----------------------------------------------------------------------------
(* C3, C7: finding lists *)

NoAdd == \A i \in 1..Len(clauses) : clauses[i].recommendedAction # "Add"

\* text with ins put in behind x at every position of occ (no two overlapping)
RECURSIVE InsertBehindEvery(_, _, _, _, _)
InsertBehindEvery(text, occ, n, ins, from) ==
    LET later == {i \in occ : i >= from}
    IN  IF later = {} THEN SubSeq(text, from, Len(text))
        ELSE LET i == Least(later)
             IN  SubSeq(text, from, i + n - 1) \o ins
                 \o InsertBehindEvery(text, occ, n, ins, i + n)

\* what is left of the redline of one Remove or Amend finding without its
\* markers: the source, every matched excerpt kept, and behind each excerpt
\* an Amend matched a space and the suggested text
StrippedRedlineOfOne ==
    IF clauses[1].recommendedAction = "Amend" /\ X # <<>> /\ Y # <<>>
    THEN InsertBehindEvery(originalText, PlainSearch(X, originalText, 1), Len(X),
                           <<" ">> \o Y, 1)
    ELSE originalText

\* C3 as stated: for every list of Amend and Remove findings the redline
\* without its annotation markers is the clean document.
C3_RoundTrip ==
    (Rendered /\ NoAdd) => StripTags(redlinedText, 1) = cleanText

\* C3 as amended: for lists of Amend and Remove findings the round trip holds
\* when no change matched (both documents are then the source); a matched
\* excerpt stays in the stripped redline, so for one finding the stripped
\* redline is the source with, behind each occurrence an Amend matched, a
\* space and the suggested text.
C3_StrippedKeepsExcerpts ==
    /\ (Rendered /\ NoAdd /\ redlinedText = originalText)
          => StripTags(redlinedText, 1) = cleanText
    /\ (Rendered /\ NoAdd /\ Len(clauses) = 1)
          => StripTags(redlinedText, 1) = StrippedRedlineOfOne

C3_Witness ==
    /\ Rendered /\ Len(clauses) = 1 /\ NoAdd
    /\ clauses[1].recommendedAction = "Amend" /\ X # <<>> /\ Y # <<>>
    /\ Cardinality(PlainSearch(X, originalText, 1)) = 2
    /\ redlinedText # originalText
    /\ StripTags(redlinedText, 1) # cleanText

\* the change is a deletion or replacement whose search text stands nowhere
\* in text
SearchTextAbsent(change, text) ==
    /\ change.type \in {"deletion", "replacement"}
    /\ Truthy(change.originalText)
    /\ Occurrences(change.originalText, text) = {}

\* C7: a Remove or Amend change whose currentLanguage has no case-insensitive
\* occurrence in the working text when it is applied leaves the redline and
\* the clean working text as they are; with one such finding both documents
\* are the source text.
C7_AbsentTextNoChange ==
    /\ [][/\ (pc = "redline" /\ idx <= Len(changes)
                 /\ SearchTextAbsent(changes[idx], redlinedText))
              => redlinedText' = redlinedText
          /\ (pc = "clean" /\ idx <= Len(changes)
                 /\ SearchTextAbsent(changes[idx], cleanText))
              => cleanText' = cleanText]_vars
    /\ [](Rendered /\ Len(clauses) = 1
             /\ SearchTextAbsent(generateRedlineChanges(clauses)[1], originalText)
          => redlinedText = originalText /\ cleanText = originalText)

\* both changes of a two-finding list applied to the clean text, the second
\* one (the first finding's) on a text the first one took its search text out of
C7_Witness ==
    /\ pc = "clean" /\ idx = 3 /\ Len(clauses) = 2
    /\ LET mid == CleanApply(originalText, changes[1])
       IN  /\ mid # originalText
           /\ SearchTextAbsent(changes[2], mid)
           /\ Occurrences(changes[2].originalText, originalText) # {}
           /\ cleanText = mid

-----------------------------------------------------------------------------
(* C8 .. C10: how the search text is matched *)

\* y holds none of the patterns a replacement string expands
NoPattern(y) ==
    \A i \in 1..Len(y) - 1 : ~(y[i] = "$" /\ y[i + 1] \in {"$", "&", "`", "'"})

\* C8: an occurrence in the source that differs from currentLanguage in letter
\* case only is matched by both generators: it is deletion-marked in the
\* redline (in the source's casing) and removed or replaced in the clean
\* document.
C8_CaseInsensitive ==
    (Rendered /\ Len(clauses) = 1 /\ Once /\ Found # X)
        => /\ Single("Remove")
              => /\ redlinedText = Before \o DeletionMarker(TheChange, Found) \o After
                 /\ cleanText = Before \o After
           /\ (Single("Amend") /\ Y # <<>>)
              => /\ redlinedText = Before \o ReplacementMarker(TheChange, Found) \o After
                 /\ NoPattern(Y) => cleanText = Before \o Y \o After

C8_Witness ==
    /\ Rendered /\ Single("Amend") /\ Once /\ Found # X /\ Len(X) = 2
    /\ Y # <<>> /\ NoPattern(Y)
    /\ cleanText = Before \o Y \o After
    /\ CountOf(AttrDel, redlinedText) = 1

\* C9: matching is global: one finding whose X occurs k times without overlap
\* in the source has all k occurrences removed or replaced in the clean
\* document and k deletion markers in the redline.
C9_EveryOccurrence ==
    LET occ == Occurrences(X, originalText)
    IN  (Rendered /\ Len(clauses) = 1 /\ X # <<>> /\ NonOverlapping(occ, Len(X)))
            => /\ Single("Remove")
                  => /\ CountOf(AttrDel, redlinedText) = Cardinality(occ)
                     /\ cleanText = ReplaceEvery(originalText, occ, Len(X), <<>>, 1)
               /\ (Single("Amend") /\ Y # <<>>)
                  => /\ CountOf(AttrDel, redlinedText) = Cardinality(occ)
                     /\ CountOf(AttrIns, redlinedText) = Cardinality(occ)
                     /\ NoPattern(Y)
                        => cleanText = ReplaceEvery(originalText, occ, Len(X), Y, 1)

C9_Witness ==
    /\ Rendered /\ Single("Remove") /\ Len(X) = 2
    /\ Cardinality(Occurrences(X, originalText)) = 2
    /\ NonOverlapping(Occurrences(X, originalText), 2)
    /\ CountOf(AttrDel, redlinedText) = 2
    /\ cleanText = <<>>

\* the text the generator at work is about to search
WorkingText == IF pc = "redline" THEN redlinedText ELSE cleanText

\* C10: the search text is a literal: whatever characters it holds, the
\* positions its regular expression matches in the working text are those a
\* plain case-insensitive search for the string, repeated from left to right,
\* finds, and each match is as long as the string.
C10_LiteralSearch ==
    (pc \in {"redline", "clean"} /\ idx <= Len(changes)
        /\ Truthy(changes[idx].originalText))
        => LET ms == MatchAll(ChangeRegex(changes[idx]), WorkingText, 1)
               x  == changes[idx].originalText
           IN  /\ {ms[k].s : k \in 1..Len(ms)} = PlainSearch(x, WorkingText, 1)
               /\ \A k \in 1..Len(ms) : ms[k].e = ms[k].s + Len(x)

\* a search text with a '$' in it was found in the source and marked
C10_Witness ==
    /\ pc = "redline" /\ idx = 2 /\ Single("Remove")
    /\ X = <<"a", "$">>
    /\ Cardinality(Occurrences(X, originalText)) = 1
    /\ Found = <<"A", "$">>
    /\ After # <<>>
    /\ redlinedText = Before \o DeletionMarker(TheChange, Found) \o After

-----------------------------------------------------------------------------
(* C11 .. C14: finding lists, their order and their change log *)

\* the change made of the finding with index p, counted from 0
ChangeAt(p) == ChangeOf(clauses[p + 1], p)[1]

\* the redline working text after the k changes of the k last findings, the
\* last finding's first
RECURSIVE RedlineAfter(_)
RedlineAfter(k) ==
    IF k = 0 THEN originalText
    ELSE RedlineApply(RedlineAfter(k - 1), ChangeAt(Len(clauses) - k))

\* the same for the clean working text
RECURSIVE CleanAfter(_)
CleanAfter(k) ==
    IF k = 0 THEN originalText
    ELSE CleanApply(CleanAfter(k - 1), ChangeAt(Len(clauses) - k))

\* C11: both generators apply the changes one after another in strictly
\* descending order of the finding's index: the k-th change applied is the one
\* of finding n - k, the last finding's first and the first finding's last,
\* in the redline generator and in the clean generator alike, every step of
\* either loop applying that one change to the working text, so that the
\* documents shown are the source text after all n changes in that order.
C11_DescendingOrder ==
    /\ [](pc \in {"redline", "clean"}
            => /\ Len(changes) = Len(clauses)
               /\ \A k \in 1..Len(changes) :
                      /\ changes[k].position = Len(clauses) - k
                      /\ changes[k] = ChangeAt(Len(clauses) - k))
    /\ [][(pc = "redline" /\ idx <= Len(changes))
            => redlinedText' = RedlineApply(redlinedText, ChangeAt(Len(clauses) - idx))]_vars
    /\ [][(pc = "clean" /\ idx <= Len(changes))
            => cleanText' = CleanApply(cleanText, ChangeAt(Len(clauses) - idx))]_vars
    /\ [](Rendered
            => /\ redlinedText = RedlineAfter(Len(clauses))
               /\ cleanText = CleanAfter(Len(clauses)))

\* two findings whose changes give other documents when the first finding's
\* change is applied first
C11_Witness ==
    /\ Rendered /\ Len(clauses) = 2
    /\ cleanText # CleanApply(CleanApply(originalText, ChangeAt(0)), ChangeAt(1))
    /\ redlinedText
          # RedlineApply(RedlineApply(originalText, ChangeAt(0)), ChangeAt(1))

\* the number of findings with the given recommended action
FindingsWith(action) ==
    Cardinality({i \in 1..Len(clauses) : clauses[i].recommendedAction = action})

\* C12: for every finding list the Summary of Changes shows as deletions the
\* number of Remove findings, as replacements the number of Amend findings and
\* as additions the number of Add findings, whatever the order of the list and
\* whether a finding's text matched, did not match or was empty; the three
\* numbers add up to the number of findings.
C12_TallyCountsActions ==
    pc # "mount"
        => /\ Deletions(redlineChanges) = FindingsWith("Remove")
           /\ Replacements(redlineChanges) = FindingsWith("Amend")
           /\ Additions(redlineChanges) = FindingsWith("Add")
           /\ Deletions(redlineChanges) + Replacements(redlineChanges)
                 + Additions(redlineChanges) = Len(clauses)

\* two Amend, one Remove and one Add, the Remove without a text to search
\* for, one Amend's text in the document and the other's not
C12_Witness ==
    /\ Rendered /\ Len(clauses) = 4
    /\ FindingsWith("Amend") = 2 /\ FindingsWith("Remove") = 1
    /\ FindingsWith("Add") = 1
    /\ \E i, j, k \in 1..4 :
          /\ clauses[i].recommendedAction = "Remove"
          /\ clauses[i].currentLanguage = <<>>
          /\ clauses[j].recommendedAction = "Amend"
          /\ Occurrences(clauses[j].currentLanguage, originalText) # {}
          /\ clauses[k].recommendedAction = "Amend"
          /\ clauses[k].currentLanguage = <<"$">>
    /\ clauses[1].recommendedAction = "Add"
    /\ Deletions(redlineChanges) = 1 /\ Additions(redlineChanges) = 1
    /\ Replacements(redlineChanges) = 2

\* the type of the change of a finding with the given recommended action
TypeFor(action) ==
    CASE action = "Remove" -> "deletion"
      [] action = "Amend" -> "replacement"
      [] action = "Add" -> "addition"

\* C13: the change log holds exactly one Change per Finding, in the findings'
\* order, its position the finding's index, its type deletion, replacement or
\* addition for Remove, Amend or Add, its name and reason the finding's; a
\* finding whose currentLanguage or suggestedLanguage is absent or empty is
\* emitted all the same, its text field as absent or empty as the finding's.
C13_OneChangePerFinding ==
    pc # "mount"
        => /\ Len(redlineChanges) = Len(clauses)
           /\ \A i \in 1..Len(clauses) :
                  LET c == redlineChanges[i]
                      f == clauses[i]
                  IN  /\ c.position = i - 1
                      /\ c.type = TypeFor(f.recommendedAction)
                      /\ c.clauseName = f.name /\ c.reason = f.issue
                      /\ c.originalText =
                            IF f.recommendedAction = "Add" THEN Undefined
                            ELSE f.currentLanguage
                      /\ c.newText =
                            IF f.recommendedAction = "Remove" THEN Undefined
                            ELSE f.suggestedLanguage

\* an Amend without currentLanguage and a Remove with an empty one, both in
\* the change log
C13_Witness ==
    /\ Rendered /\ Len(clauses) = 2
    /\ clauses[1].recommendedAction = "Amend"
    /\ clauses[1].currentLanguage = Undefined
    /\ clauses[2].recommendedAction = "Remove"
    /\ clauses[2].currentLanguage = <<>>
    /\ Len(redlineChanges) = 2
    /\ redlineChanges[1].type = "replacement"
    /\ redlineChanges[1].originalText = Undefined
    /\ redlineChanges[2].type = "deletion" /\ redlineChanges[2].position = 1

\* the change lacks a text it needs: a deletion without originalText, a
\* replacement without originalText or without newText, an addition without
\* newText (absent or empty)
LacksText(change) ==
    \/ change.type = "deletion" /\ ~Truthy(change.originalText)
    \/ change.type = "replacement"
          /\ (~Truthy(change.originalText) \/ ~Truthy(change.newText))
    \/ change.type = "addition" /\ ~Truthy(change.newText)

\* C14: applying the change of a finding whose text is absent or empty leaves
\* the redline and the clean working text as they are and the loop goes on to
\* the next change (an empty currentLanguage matches nowhere); when every
\* finding is such a one, both documents come out as the source text.
C14_MissingTextNoChange ==
    /\ [][/\ (pc = "redline" /\ idx <= Len(changes) /\ LacksText(changes[idx]))
              => /\ redlinedText' = redlinedText
                 /\ idx' = idx + 1 /\ pc' = pc
          /\ (pc = "clean" /\ idx <= Len(changes) /\ LacksText(changes[idx]))
              => /\ cleanText' = cleanText
                 /\ idx' = idx + 1 /\ pc' = pc]_vars
    /\ []((Rendered /\ \A i \in 1..Len(redlineChanges) : LacksText(redlineChanges[i]))
            => redlinedText = originalText /\ cleanText = originalText)

\* both generators are through a Remove with an empty currentLanguage, an
\* Amend without suggestedLanguage whose currentLanguage is in the document
C14_Witness ==
    /\ Rendered /\ Len(clauses) = 2 /\ originalText # <<>>
    /\ clauses[1].recommendedAction = "Remove"
    /\ clauses[1].currentLanguage = <<>>
    /\ clauses[2].recommendedAction = "Amend"
    /\ Occurrences(clauses[2].currentLanguage, originalText) # {}
    /\ clauses[2].suggestedLanguage = Undefined
    /\ redlinedText = originalText /\ cleanText = originalText

-----------------------------------------------------------------------------
(* C15: the export of the redline view *)

\* the redline of no finding or of one finding as it is without its
\* annotation markers: the source with every matched excerpt kept, a space and
\* the suggested text behind each excerpt an Amend matched, and the suggested
\* text of an Add behind two line breaks
RedlineWithoutMarkers ==
    IF clauses = <<>> THEN originalText
    ELSE IF clauses[1].recommendedAction = "Add"
    THEN IF Y # <<>> THEN originalText \o <<"\n", "\n">> \o Y ELSE originalText
    ELSE StrippedRedlineOfOne

\* C15: for every document text and every issue, '<' and '>' included, Copy
\* and Download of the redline view put out the redline without its
\* annotation markers, every other character kept in place.
C15_ExportKeepsText ==
    [][(pc = "rendered" /\ activeView = "redline")
          => /\ Len(writes') > Len(writes)
                => writes'[Len(writes')].text = RedlineWithoutMarkers
             /\ downloaded' # downloaded
                => downloaded'[1].content = RedlineWithoutMarkers]_vars

-----------------------------------------------------------------------------
(* C16 .. C20: failures in App and in the service functions *)

LastToast == toasts[Len(toasts)]

\* the step shows exactly one notification more, an error of the given title
ShowsOneError(title) ==
    /\ Len(toasts') = Len(toasts) + 1
    /\ SubSeq(toasts', 1, Len(toasts)) = toasts
    /\ toasts'[Len(toasts')].title = title
    /\ toasts'[Len(toasts')].variant = "destructive"

\* C16: when the AI call fails, analyzeDocument ends with the upload tab
\* active, isAnalyzing false, analysisResult and documentText as they were
\* and exactly one error notification shown; with no user action in between
\* these are the values from before the click: the click is made on the
\* upload tab with no analysis running and changes neither documentText nor
\* analysisResult, and the progress timer changes neither.
C16_FailureRestores ==
    [][/\ analyzeDocument
          => /\ activeTab = "upload" /\ ~isAnalyzing
             /\ UNCHANGED <<documentText, analysisResult, toasts>>
       /\ progressTick
          => UNCHANGED <<activeTab, documentText, isAnalyzing, analysisResult,
                         toasts>>
       /\ analysisRejects(FewThrown)
          => /\ activeTab' = "upload"
             /\ isAnalyzing' = FALSE
             /\ UNCHANGED <<documentText, analysisResult>>
             /\ ShowsOneError("Analysis failed")]_vars

\* an analysis that failed after one that succeeded: the earlier result is
\* still there, the upload tab is shown again
C16_Witness ==
    /\ Len(toasts) = 2
    /\ toasts[1].title = "Analysis complete"
    /\ toasts[2].title = "Analysis failed"
    /\ requests = <<>>
    /\ activeTab = "upload" /\ ~isAnalyzing
    /\ analysisResult # <<>>
    /\ analysisProgress = 14

\* the thrown value is an Error whose message holds the word
Has(e, word) == e.isError /\ word \in {e.message[i] : i \in 1..Len(e.message)}

\* the message of the first rule the thrown value matches
MessageFor(e) ==
    IF Has(e, "network") \/ Has(e, "fetch")
    THEN "Network error occurred. Please check your connection and try again."
    ELSE IF Has(e, "rate limit")
    THEN "Too many requests. Please wait a moment and try again."
    ELSE IF Has(e, "authentication")
    THEN "Authentication error. Please sign in again."
    ELSE "Failed to analyze NDA. Please try again."

\* C17: whenever the AI call throws, analyzeNDA throws an Error with one of
\* four fixed messages, that of the first rule the underlying message
\* matches: 'network' or 'fetch', else 'rate limit', else 'authentication',
\* else (a thrown value that is no Error included) the generic one.  It
\* returns no result and does not throw the underlying value on: the
\* notification shows that Error's message and no result is set.
C17_FourFixedMessages ==
    console # <<>>
        => /\ console[1].label = "Error analyzing NDA:"
           /\ Len(toasts) = 1
           /\ toasts[1].title = "Analysis failed"
           /\ toasts[1].description = <<MessageFor(console[1].value)>>
           /\ analysisResult = <<>>
           /\ analyzeNDA(Threw(console[1].value))
                 = Threw([isError |-> TRUE,
                          message |-> <<MessageFor(console[1].value)>>])

\* an Error whose message matches the second rule and, further on, the first
C17_Witness ==
    /\ console # <<>>
    /\ console[1].value = [isError |-> TRUE, message |-> <<"rate limit", "fetch">>]
    /\ toasts[1].description
          = <<"Network error occurred. Please check your connection and try again.">>

\* C18: every failure of extractTextFromFile, on the hosted extraction path
\* and on the plain-text read path alike, reaches the caller as the generic
\* extraction Error: the upload handlers, which show the message of the Error
\* they catch, show that message.
C18_ExtractionErrorIsGeneric ==
    \A k \in 1..Len(toasts) :
        toasts[k].title = "Error uploading file"
            => toasts[k].description
                 = <<"Failed to extract text from file. Please try again or paste the text directly.">>

\* C19: a failed upload or drop and a failed clipboard write each end in their
\* handler: the step shows exactly one error notification and leaves
\* documentText, analysisResult, activeTab and isAnalyzing as they are; after
\* it the same action can be started again.
C19_FailuresAreCaught ==
    /\ [][/\ extractionRejects
              => /\ ShowsOneError("Error uploading file")
                 /\ UNCHANGED <<documentText, analysisResult, activeTab, isAnalyzing>>
          /\ WriteTextRejects
              => /\ ShowsOneError("Failed to copy")
                 /\ UNCHANGED <<documentText, analysisResult, activeTab, isAnalyzing>>]_vars
    /\ []((toasts # <<>> /\ LastToast.title = "Error uploading file"
             /\ activeTab = "upload" /\ Room)
            => \A file \in Files :
                  ENABLED handleFileUpload(file) /\ ENABLED handleDrop(file))
    /\ []((toasts # <<>> /\ LastToast.title = "Failed to copy"
             /\ activeTab = "results" /\ Room)
            => ENABLED App_copyToClipboard)

\* an upload failed and, after it, a copy failed; nothing is left in flight
C19_Witness ==
    /\ Len(toasts) = 2
    /\ toasts[1].title = "Error uploading file"
    /\ toasts[2].title = "Failed to copy"
    /\ Pending = 0
    /\ console # <<>>
    /\ analysisResult # <<>>

\* C20: an accepted Analyze issues exactly one AI request, and no other step
\* issues one: after a request has failed there is no further request, on any
\* path through analyzeDocument and analyzeNDA, until Analyze is triggered
\* again.
C20_OneRequestPerAnalyze ==
    [][/\ analyzeDocument
          => /\ requested' = requested + 1
             /\ Len(requests') = Len(requests) + 1
       /\ ~analyzeDocument
          => /\ requested' = requested
             /\ Len(requests') <= Len(requests)]_vars

\* a request failed, nothing was requested until Analyze was clicked again,
\* and the second request is in flight
C20_Witness ==
    /\ Len(toasts) = 1 /\ toasts[1].title = "Analysis failed"
    /\ Len(console) = 1
    /\ requested = 2
    /\ Len(requests) = 1
    /\ isAnalyzing

-----------------------------------------------------------------------------
(* C22: the matches of a change in the two working texts *)

\* the change searches its working text: a deletion with a text to search
\* for, a replacement with a text to search for and a text to put in
Searches(change) ==
    \/ change.type = "deletion" /\ Truthy(change.originalText)
    \/ change.type = "replacement" /\ Truthy(change.originalText)
          /\ Truthy(change.newText)

\* the change's regular expression matches somewhere in text
HasMatch(change, text) == MatchAll(ChangeRegex(change), text, 1) # <<>>

\* C22: at every step of the clean loop whose change searches, the change
\* finds a match in the clean working text exactly when it found one in the
\* redline working text at the same step of the redline loop.
C22_SameMatches ==
    (pc = "clean" /\ idx <= Len(changes) /\ Searches(changes[idx]))
        => (HasMatch(changes[idx], RedlineAfter(idx - 1))
               <=> HasMatch(changes[idx], cleanText))

-----------------------------------------------------------------------------
(* C23: a change searches the text the changes before it have put in *)

\* applied to the working text prev the change puts its newText into it: an
\* addition with a text, a replacement with both texts that matches in prev
Inserts(change, prev) ==
    \/ change.type = "addition" /\ Truthy(change.newText)
    \/ Searches(change) /\ change.type = "replacement" /\ HasMatch(change, prev)

\* the k-th step of the clean loop applies a change that searches for a text
\* found in the newText the step before it has put in
SearchesInserted(k) ==
    /\ pc = "clean" /\ k \in 2..Len(changes) /\ idx = k
    /\ Searches(changes[k])
    /\ Inserts(changes[k - 1], CleanAfter(k - 2))
    /\ HasMatch(changes[k], changes[k - 1].newText)

\* C23: a change of a lower finding index is matched against the working text
\* as the changes of higher index have left it.  When finding j's
\* currentLanguage (one character here) occurs in the suggestedLanguage that
\* finding j + 1 has appended or put in, j's change matches in the clean
\* working text and replaces every match, the inserted occurrence too: after
\* a Remove no match is left, after an Amend every match holds j's
\* suggestedLanguage.
C23_InsertedTextIsMatched ==
    [][\A k \in 2..Len(changes) :
          SearchesInserted(k)
             => /\ HasMatch(changes[k], cleanText)
                /\ cleanText' =
                      ReplaceByString(cleanText, ChangeRegex(changes[k]),
                                      IF changes[k].type = "deletion" THEN <<>>
                                      ELSE changes[k].newText)
                /\ changes[k].type = "deletion"
                      => ~HasMatch(changes[k], cleanText')]_vars

\* a Remove of "a" before an Add of "a" on a document without an "a": the
\* appended "a" is gone from the clean document, the redline shows it deleted
C23_Witness ==
    /\ Rendered /\ Len(clauses) = 2 /\ originalText = <<"$">>
    /\ clauses[1].recommendedAction = "Remove"
    /\ clauses[1].currentLanguage = <<"a">>
    /\ clauses[2].recommendedAction = "Add"
    /\ clauses[2].suggestedLanguage = <<"a">>
    /\ cleanText = <<"$", "\n", "\n">>

-----------------------------------------------------------------------------
(* C29: what the generators leave alone *)

\* C29: no step of the render changes the original text or the finding list,
\* and from the first step on none changes the change list of the tally and
\* the change log, which stays the list derived from the findings in their
\* order, position k - 1 at place k, whatever the generators sort; the
\* analysis result App holds stays the one the findings came from; and the
\* two documents shown are what the changes applied to the original text
\* give, so that generating again from the same inputs gives them again.
C29_GeneratorsKeepInputs ==
    /\ [][/\ originalText' = originalText
          /\ clauses' = clauses
          /\ analysisResult' = analysisResult
          /\ pc # "mount" => redlineChanges' = redlineChanges]_vars
    /\ [](pc # "mount"
            => /\ redlineChanges = generateRedlineChanges(clauses)
               /\ \A k \in 1..Len(redlineChanges) :
                      redlineChanges[k].position = k - 1)
    /\ [](Rendered
            => /\ analysisResult[1].clauses = clauses
               /\ redlinedText = RedlineAfter(Len(clauses))
               /\ cleanText = CleanAfter(Len(clauses)))

\* two findings whose changes the generators have put in another order than
\* the change log's, and both documents differ from the original text
C29_Witness ==
    /\ Rendered /\ Len(clauses) = 2
    /\ changes # redlineChanges
    /\ changes = <<redlineChanges[2], redlineChanges[1]>>
    /\ redlinedText # originalText /\ cleanText # originalText
    /\ cleanText # redlinedText

-----------------------------------------------------------------------------
(* C24: the progress shown *)

\* an analysis starts: analyzeDocument past its test of the text
AnalysisStarts == requested' = requested + 1

\* the interval's callback runs
Ticks == requests # <<>> /\ Len(requests') = Len(requests) /\ requested' = requested

\* C24: analysisProgress is within 0..100 in every state and at most 90 while
\* the AI request is outstanding; it is 0 when an analysis starts, no tick of
\* the timer lowers it, and it is 100 after an analysis that succeeded.
C24_ProgressInRange ==
    /\ [](analysisProgress \in 0..100)
    /\ [](requests # <<>> => analysisProgress <= 90)
    /\ [][AnalysisStarts => analysisProgress' = 0]_vars
    /\ [][Ticks => analysisProgress' >= analysisProgress]_vars
    /\ [][(requests # <<>> /\ requests' = <<>> /\ analysisResult' # analysisResult)
            => analysisProgress' = 100]_vars

-----------------------------------------------------------------------------
(* C30: analyzeDocument with nothing to analyze *)

\* the notification analyzeDocument shows for a blank text
NoDocumentToast ==
    Toast("No document to analyze",
          <<"Please upload a document or paste text first">>, "destructive")

\* C30: a call of analyzeDocument while documentText is empty or white space
\* only issues no AI request and starts no progress timer, leaves isAnalyzing,
\* analysisProgress, activeTab, analysisResult and documentText as they are
\* and shows one error notification; so every request in flight carries a
\* text that is not blank.
C30_BlankTextNoRequest ==
    /\ [][(trim(documentText) = <<>> /\ analyzeDocumentCalled)
            => /\ UNCHANGED <<isAnalyzing, analysisProgress, activeTab,
                              analysisResult, documentText, requests, requested>>
               /\ toasts' = Append(toasts, NoDocumentToast)]_vars
    /\ [](\A i \in 1..Len(requests) : trim(requests[i].documentText) # <<>>)

\* analyzeDocument was called with a text of white space only: the error is
\* shown on the upload tab and nothing was requested
C30_Witness ==
    /\ documentText = <<" ">>
    /\ toasts = <<NoDocumentToast>>
    /\ activeTab = "upload" /\ ~isAnalyzing
    /\ requested = 0 /\ requests = <<>>
    /\ analysisResult = <<>> /\ analysisProgress = 0

-----------------------------------------------------------------------------
(* C25: one analysis at a time *)

\* C25: at most one AI request is outstanding in every state, isAnalyzing is
\* true exactly while one is, and no click on Analyze is accepted from a state
\* in which an analysis is running, whatever clicks, edits, uploads, tab
\* switches and timer ticks come in between.
C25_OneOutstanding ==
    /\ [](Len(requests) <= 1)
    /\ [](isAnalyzing <=> requests # <<>>)
    /\ [](isAnalyzing => ~ENABLED analyzeDocument)
    /\ [][isAnalyzing => requested' = requested]_vars

\* an analysis is running and the user is back on the upload tab with another
\* text that is not blank: only the running analysis keeps Analyze disabled
C25_Witness ==
    /\ isAnalyzing /\ Len(requests) = 1
    /\ activeTab = "upload"
    /\ trim(documentText) # <<>>
    /\ documentText # requests[1].documentText
    /\ Room
    /\ ~ENABLED analyzeDocument

-----------------------------------------------------------------------------
(* C26: the tab shown has something to show *)

\* C26: in every state the redline tab is active only with an analysis
\* result, and the results tab only with an analysis result or an analysis
\* running; an analysis result, once there, is never taken away.
C26_TabInvariant ==
    /\ [](activeTab \in {"upload", "results", "redline"})
    /\ [](activeTab = "redline" => analysisResult # <<>>)
    /\ [](activeTab = "results" => (analysisResult # <<>> \/ isAnalyzing))
    /\ [][analysisResult # <<>> => analysisResult' # <<>>]_vars

\* the first analysis has failed: the user is back on the upload tab, with no
\* result and no analysis running
C26_Witness ==
    /\ Len(toasts) = 1 /\ toasts[1].title = "Analysis failed"
    /\ requested = 1 /\ requests = <<>>
    /\ analysisResult = <<>> /\ ~isAnalyzing
    /\ activeTab = "upload"

-----------------------------------------------------------------------------
(* C27: every analysis comes to an end *)

\* C27: when every AI call settles, every analysis started comes to
\* isAnalyzing = false, after a success and after a failure; with isAnalyzing
\* false no request is left and with it no progress timer, no tick can run,
\* and analysisProgress stays as it is until Analyze is clicked again.
C27_AnalysisEnds ==
    /\ isAnalyzing ~> ~isAnalyzing
    /\ [](~isAnalyzing => (requests = <<>> /\ ~ENABLED progressTickBy(FineSteps)))
    /\ [][(~isAnalyzing /\ ~isAnalyzing') => analysisProgress' = analysisProgress]_vars

\* an analysis that failed and after it one that succeeded have both ended
C27_Witness ==
    /\ Len(toasts) = 2
    /\ toasts[1].title = "Analysis failed"
    /\ toasts[2].title = "Analysis complete"
    /\ ~isAnalyzing /\ requests = <<>> /\ requested = 2
    /\ analysisProgress = 100

-----------------------------------------------------------------------------
(* C28: two uploads at a time *)

\* every extraction so far has succeeded
AllUploaded ==
    \A k \in 1..Len(toasts) : toasts[k].title = "File uploaded successfully"

\* C28: when two or more files were chosen or dropped with no edit of the
\* text area, and all their extractions have completed and succeeded, the
\* document text is the text of the file chosen last, in whatever order the
\* extractions have completed.
C28_LastChosenWins ==
    (extractions = <<>> /\ Len(toasts) >= 2 /\ AllUploaded)
        => documentText = lastChosen[1].text

-----------------------------------------------------------------------------
(* C21: the text the redline view is given *)

\* the redline view is shown, rendered on the props App holds now
RedlineShown ==
    /\ activeTab = "redline" /\ Rendered /\ analysisResult # <<>>
    /\ originalText = documentText
    /\ clauses = analysisResult[1].clauses

\* C21: whenever the redline view is shown, the original text it was given
\* is the document text that was submitted to the AI call the analysis
\* result came from, and its findings are that result's.
C21_OriginalIsSubmitted ==
    RedlineShown => (submitted # <<>> /\ originalText = submitted[1])

====
